---- MODULE Spec2Model ----
(***************************************************************************)
(* eframe_tokio_app: an egui frame loop (EframeTokioApp::update) that      *)
(* fetches images on a tokio runtime and talks to the fetch tasks through  *)
(* one flowync Flower (progress channel, cancel flag, result cell).        *)
(*                                                                         *)
(* The consumer is the single UI thread; one frame of update is cut at the *)
(* places where it reads state the workers write: the is_active/extract    *)
(* step, the finalize step and the button step.  A worker is the async     *)
(* block spawned by spawn_fetch_image; its steps are cut at its awaits.    *)
(* The Flower itself is a library outside the repository: its operations   *)
(* follow the contract of the specification (sections 4.1-4.3): a channel  *)
(* of capacity one whose sender waits for space and for delivery, a cancel *)
(* flag that is fresh for every handle, and a result cell.                 *)
(***************************************************************************)
EXTENDS Integers, Sequences, FiniteSets, TLC

\* ------------------------------------------------------------------ bounds
\* number of spawn_fetch_image calls explored
MaxSpawns == 3
\* number of body chunks one response may deliver
MaxChunks == 2

\* number of fetch tasks in flight at once
MaxLive == 2
\* number of spawn_fetch_image calls explored under fair scheduling
MaxFairSpawns == 2

Tasks == 1..MaxSpawns
\* length in bytes of the i-th chunk of a body
ChunkLen(i) == IF i = 1 THEN 600 ELSE 900

\* ------------------------------------------------------------ program text
LabelFetchPrev == "Fetch prev image"
LabelFetchNext == "Fetch next image"
LabelWait == "Wait we are still fetching..."
LabelCancel == "Cancel?"
LabelRetryPrev == "Retry prev image?"
LabelRetryNext == "Retry next image?"
LabelNoPrev == "Prev image not available"
CancelationMsg == "Fetching image canceled."

\* the Err values fetch_image can return: an error of the client, the
\* headers, the body stream or the decoder passed on by `?`, and the two it
\* builds itself
IOErrorMsg == "IOError"
ContentTypeMsg == "Expected  image/jpeg png, found"
ConnectErrors == {IOErrorMsg, ContentTypeMsg}
FetchErrors == ConnectErrors \cup {CancelationMsg}

\* the channel slot and the result cell when empty
NoMsg == [task |-> 0, kind |-> "none", n |-> 0]
NoResult == [task |-> 0, val |-> ""]

VARIABLES
    \* ---- EframeTokioApp (UI thread)
    init, next_image, btn_label_prev, btn_label_next, net_image, error_msg,
    uipc,
    \* ---- Flower state shared with the handles
    activated, canceled, chan, result,
    \* ---- the spawned async blocks
    nspawn, pc, fetched,
    \* ---- history (not program state)
    sent, recv, nset, nfin, early, hit, late, fin

appVars == <<init, next_image, btn_label_prev, btn_label_next, net_image, error_msg, uipc>>
flowerVars == <<activated, canceled, chan, result>>
workerVars == <<nspawn, pc, fetched>>
histVars == <<sent, recv, nset, nfin, early, hit, late, fin>>
vars == <<appVars, flowerVars, workerVars, histVars>>

\* what the last finalize of this frame saw (history)
NoFin == [kind |-> "none", task |-> 0, tmp |-> 0, bytes |-> 0, seed |-> 0,
          late |-> FALSE, hit |-> FALSE, reset |-> FALSE]

RECURSIVE SumSeq(_)
SumSeq(s) == IF s = <<>> THEN 0 ELSE Head(s) + SumSeq(Tail(s))

Init ==
    /\ init = TRUE
    /\ next_image = TRUE
    /\ btn_label_prev = LabelFetchPrev
    /\ btn_label_next = LabelFetchNext
    /\ net_image = [image |-> 0, file_size |-> 0, tmp_file_size |-> 0,
                    show_image_progress |-> FALSE, error |-> "", seed |-> 0]
    /\ error_msg = "Default"
    /\ uipc = "start"
    /\ activated = FALSE
    /\ canceled = FALSE
    /\ chan = NoMsg
    /\ result = NoResult
    /\ nspawn = 0
    /\ pc = [t \in Tasks |-> "unborn"]
    /\ fetched = [t \in Tasks |-> ""]
    /\ sent = [t \in Tasks |-> <<>>]
    /\ recv = [t \in Tasks |-> <<>>]
    /\ nset = [t \in Tasks |-> 0]
    /\ nfin = [t \in Tasks |-> 0]
    /\ early = [t \in Tasks |-> FALSE]
    /\ hit = [t \in Tasks |-> FALSE]
    /\ late = FALSE
    /\ fin = NoFin

\* ------------------------------------------------------- Flower and Handle
\* Flower::is_active
is_active == activated
\* Handle::should_cancel and Flower::is_canceled read the same flag
should_cancel == canceled
is_canceled == canceled
\* the channel has space for a send
channel_free == chan = NoMsg
\* the message task t deposited has been taken by extract: its send returns
Delivered(t) == chan.task # t
\* Flower::finalize has a result to hand over
result_is_ready == result # NoResult

\* the spawned blocks that have not yet set their result
Live == {t \in Tasks : pc[t] \notin {"unborn", "done"}}

\* ------------------------------------------------------------- the workers
\* fetch_image returned Err(e): the async block goes on to send ImageError
Fail(t, e) ==
    /\ pc' = [pc EXCEPT ![t] = "sendErr"]
    /\ fetched' = [fetched EXCEPT ![t] = e]

\* handle.set_result(fetch_image): the value moves into the flower's one
\* result cell, replacing a result that was not consumed yet
set_result(t, v) ==
    /\ result' = [task |-> t, val |-> v]
    /\ nset' = [nset EXCEPT ![t] = @ + 1]

\* handle.activate(), first statement of the spawned block
Activate(t) ==
    /\ pc[t] = "spawned"
    /\ activated' = TRUE
    /\ pc' = [pc EXCEPT ![t] = "connect"]
    /\ UNCHANGED <<appVars, canceled, chan, result, nspawn, fetched, histVars>>

\* client build, GET, and the Content-Type test
Connect(t) ==
    /\ pc[t] = "connect"
    /\ \/ /\ pc' = [pc EXCEPT ![t] = "chunk"]
          /\ UNCHANGED fetched
       \/ \E e \in ConnectErrors : Fail(t, e)
    /\ UNCHANGED <<appVars, flowerVars, nspawn, histVars>>

\* the loop is at response.chunk(): at its first iteration, or after the
\* send_async of the previous one has returned (its message was taken) and
\* the chunk was pushed to image_bytes
AtChunk(t) == pc[t] = "chunk" \/ (pc[t] = "await" /\ Delivered(t))

\* ReadChunk with the future of send_async dropped instead of awaited: the
\* loop goes on and nothing enters the channel
ReadChunk_NotAwaited(t) ==
    /\ AtChunk(t)
    /\ \/ /\ Fail(t, IOErrorMsg)
          /\ UNCHANGED sent
       \/ /\ Len(sent[t]) < MaxChunks
          /\ IF should_cancel
             THEN Fail(t, CancelationMsg) /\ UNCHANGED sent
             ELSE /\ pc' = [pc EXCEPT ![t] = "chunk"]
                  /\ sent' = [sent EXCEPT ![t] = Append(@, ChunkLen(Len(@) + 1))]
                  /\ UNCHANGED fetched
    /\ UNCHANGED <<appVars, flowerVars, nspawn, recv, nset, nfin, early, hit, late, fin>>

\* response.chunk().await? gave Err, or Some(a_chunk) followed by the
\* cancelation test and the call of send_async
ReadChunk(t) ==
    /\ AtChunk(t)
    /\ \/ /\ Fail(t, IOErrorMsg)
          /\ UNCHANGED sent
       \/ /\ Len(sent[t]) < MaxChunks
          /\ IF should_cancel
             THEN Fail(t, CancelationMsg) /\ UNCHANGED sent
             ELSE /\ pc' = [pc EXCEPT ![t] = "send"]
                  /\ sent' = [sent EXCEPT ![t] = Append(@, ChunkLen(Len(@) + 1))]
                  /\ UNCHANGED fetched
    /\ UNCHANGED <<appVars, flowerVars, nspawn, recv, nset, nfin, early, hit, late, fin>>

\* inside send_async: the progress message enters the channel
SendProgress(t) ==
    /\ pc[t] = "send"
    /\ channel_free
    /\ chan' = [task |-> t, kind |-> "ImageProgress", n |-> sent[t][Len(sent[t])]]
    /\ pc' = [pc EXCEPT ![t] = "await"]
    /\ UNCHANGED <<appVars, activated, canceled, result, nspawn, fetched, histVars>>

\* Finish with the Content-Type test made after the body was read
Finish_TypeTestLast(t) ==
    /\ AtChunk(t)
    /\ \/ /\ \E e \in ConnectErrors : Fail(t, e)
          /\ UNCHANGED <<result, nset>>
       \/ /\ sent[t] # <<>>
          /\ IF should_cancel
             THEN Fail(t, CancelationMsg) /\ UNCHANGED <<result, nset>>
             ELSE /\ pc' = [pc EXCEPT ![t] = "done"]
                  /\ UNCHANGED fetched
                  /\ set_result(t, "ok")
    /\ UNCHANGED <<appVars, activated, canceled, chan, nspawn, sent, recv, nfin, early, hit, late, fin>>

\* chunk() gave None: decode (no image decodes from an empty buffer), the
\* second cancelation test, Ok(finalize) and set_result
Finish(t) ==
    /\ AtChunk(t)
    /\ \/ /\ Fail(t, IOErrorMsg)
          /\ UNCHANGED <<result, nset>>
       \/ /\ sent[t] # <<>>
          /\ IF should_cancel
             THEN Fail(t, CancelationMsg) /\ UNCHANGED <<result, nset>>
             ELSE /\ pc' = [pc EXCEPT ![t] = "done"]
                  /\ UNCHANGED fetched
                  /\ set_result(t, "ok")
    /\ UNCHANGED <<appVars, activated, canceled, chan, nspawn, sent, recv, nfin, early, hit, late, fin>>

\* SendError with the two statements swapped: set_result first, then the
\* send of ImageError, which the block does not outlive
SendError_AfterSetResult(t) ==
    /\ pc[t] = "sendErr"
    /\ channel_free
    /\ set_result(t, fetched[t])
    /\ chan' = [task |-> t, kind |-> "ImageError", n |-> 0]
    /\ pc' = [pc EXCEPT ![t] = "done"]
    /\ fetched' = [fetched EXCEPT ![t] = ""]
    /\ UNCHANGED <<appVars, activated, canceled, nspawn, sent, recv, nfin, early, hit, late, fin>>

\* fetch_image.is_err(): handle.send(Message::ImageError) enters the channel
SendError(t) ==
    /\ pc[t] = "sendErr"
    /\ channel_free
    /\ chan' = [task |-> t, kind |-> "ImageError", n |-> 0]
    /\ pc' = [pc EXCEPT ![t] = "awaitErr"]
    /\ UNCHANGED <<appVars, activated, canceled, result, nspawn, fetched, histVars>>

\* SetErrResult that sets the result inside the is_err branch and falls
\* through to set it again
SetErrResult_Twice(t) ==
    /\ pc[t] = "awaitErr"
    /\ Delivered(t)
    /\ set_result(t, fetched[t])
    /\ UNCHANGED <<appVars, activated, canceled, chan, workerVars, sent, recv, nfin, early, hit, late, fin>>

\* handle.send returns and the Err is set as the result
SetErrResult(t) ==
    /\ pc[t] = "awaitErr"
    /\ Delivered(t)
    /\ pc' = [pc EXCEPT ![t] = "done"]
    /\ set_result(t, fetched[t])
    /\ fetched' = [fetched EXCEPT ![t] = ""]
    /\ UNCHANGED <<appVars, activated, canceled, chan, nspawn, sent, recv, nfin, early, hit, late, fin>>

Worker(t) ==
    \/ Activate(t)
    \/ Connect(t)
    \/ ReadChunk(t)
    \/ SendProgress(t)
    \/ Finish(t)
    \/ SendError(t)
    \/ SetErrResult(t)

\* ----------------------------------------------------------- the UI thread
\* NetworkImage::repair
repair(ni) ==
    [ni EXCEPT !.file_size = IF ni.tmp_file_size >= 1000 THEN ni.tmp_file_size \div 1000 ELSE @,
               !.show_image_progress = FALSE,
               !.tmp_file_size = 0]

\* NetworkImage::set_image
set_image(ni, image) == [ni EXCEPT !.error = "", !.image = image]

\* NetworkImage::set_error
set_error(ni, e) == [ni EXCEPT !.error = e]

\* spawn_fetch_image handing the worker a handle that keeps the flower's
\* cancel flag as it is
spawn_fetch_image_KeepsFlag(ni) ==
    /\ nspawn < MaxSpawns
    /\ Cardinality(Live) < MaxLive
    /\ net_image' = [ni EXCEPT !.error = "", !.show_image_progress = TRUE]
    /\ UNCHANGED canceled
    /\ late' = FALSE
    /\ nspawn' = nspawn + 1
    /\ pc' = [pc EXCEPT ![nspawn + 1] = "spawned"]

\* EframeTokioApp::spawn_fetch_image, on the NetworkImage value ni; the
\* handle it takes from the flower starts with the cancel flag lowered
spawn_fetch_image(ni) ==
    /\ nspawn < MaxSpawns
    /\ Cardinality(Live) < MaxLive
    /\ net_image' = [ni EXCEPT !.error = "", !.show_image_progress = TRUE]
    /\ canceled' = FALSE
    /\ late' = FALSE
    /\ nspawn' = nspawn + 1
    /\ pc' = [pc EXCEPT ![nspawn + 1] = "spawned"]

\* reset_fetch_image without the test seed > 1 around the decrement
reset_fetch_image_NoSeedTest(ni) ==
    LET r == repair(ni) IN
    IF next_image /\ is_canceled
    THEN /\ net_image' = [r EXCEPT !.seed = @ - 1]
         /\ btn_label_next' = LabelRetryNext
         /\ UNCHANGED btn_label_prev
    ELSE IF ~next_image /\ is_canceled
    THEN /\ net_image' = [r EXCEPT !.seed = @ + 1]
         /\ btn_label_prev' = LabelRetryPrev
         /\ UNCHANGED btn_label_next
    ELSE /\ net_image' = r
         /\ btn_label_next' = LabelFetchNext
         /\ btn_label_prev' = LabelFetchPrev

\* EframeTokioApp::reset_fetch_image, on the NetworkImage value ni
reset_fetch_image(ni) ==
    LET r == repair(ni) IN
    IF next_image /\ is_canceled
    THEN /\ net_image' = [r EXCEPT !.seed = IF @ > 1 THEN @ - 1 ELSE @]
         /\ btn_label_next' = LabelRetryNext
         /\ UNCHANGED btn_label_prev
    ELSE IF ~next_image /\ is_canceled
    THEN /\ net_image' = [r EXCEPT !.seed = @ + 1]
         /\ btn_label_prev' = LabelRetryPrev
         /\ UNCHANGED btn_label_next
    ELSE /\ net_image' = r
         /\ btn_label_next' = LabelFetchNext
         /\ btn_label_prev' = LabelFetchPrev

\* Flower::cancel, with the history of which tasks it reached before their
\* first chunk, which in the chunk loop after a chunk was read, and whether
\* it came after the result was set
cancel ==
    /\ canceled' = TRUE
    /\ early' = [t \in Tasks |->
                   early[t] \/ (pc[t] \in {"connect", "chunk"} /\ sent[t] = <<>>)]
    /\ hit' = [t \in Tasks |-> hit[t] \/ pc[t] \in {"send", "await"}]
    /\ late' = IF canceled THEN late ELSE result_is_ready

\* update, first frame: show_init() is true, the fetch of seed 1 is spawned
Start ==
    /\ uipc = "start"
    /\ init
    /\ init' = FALSE
    /\ spawn_fetch_image([net_image EXCEPT !.seed = 1])
    /\ uipc' = "poll"
    /\ UNCHANGED <<next_image, btn_label_prev, btn_label_next, error_msg,
                   activated, chan, result, fetched,
                   sent, recv, nset, nfin, early, hit, fin>>

\* Poll with an extract that waits until a message is in the channel
Poll_ExtractWaits ==
    /\ uipc = "poll"
    /\ IF is_active
       THEN /\ uipc' = "finalize"
            /\ chan # NoMsg
            /\ chan' = NoMsg
            /\ IF chan.kind = "ImageProgress"
               THEN /\ net_image' = [net_image EXCEPT !.tmp_file_size = @ + chan.n]
                    /\ recv' = [recv EXCEPT ![chan.task] = Append(@, chan.n)]
                    /\ UNCHANGED error_msg
               ELSE /\ error_msg' = chan.kind
                    /\ UNCHANGED <<net_image, recv>>
       ELSE /\ uipc' = "buttons"
            /\ UNCHANGED <<chan, net_image, error_msg, recv>>
    /\ UNCHANGED <<init, next_image, btn_label_prev, btn_label_next,
                   activated, canceled, result, workerVars,
                   sent, nset, nfin, early, hit, late, fin>>

\* Poll without the is_active test around extract and finalize
Poll_NoActiveTest ==
    /\ uipc = "poll"
    /\ uipc' = "finalize"
    /\ IF chan = NoMsg
       THEN UNCHANGED <<chan, net_image, error_msg, recv>>
       ELSE /\ chan' = NoMsg
            /\ IF chan.kind = "ImageProgress"
               THEN /\ net_image' = [net_image EXCEPT !.tmp_file_size = @ + chan.n]
                    /\ recv' = [recv EXCEPT ![chan.task] = Append(@, chan.n)]
                    /\ UNCHANGED error_msg
               ELSE /\ error_msg' = chan.kind
                    /\ UNCHANGED <<net_image, recv>>
    /\ UNCHANGED <<init, next_image, btn_label_prev, btn_label_next,
                   activated, canceled, result, workerVars,
                   sent, nset, nfin, early, hit, late, fin>>

\* update: if self.flower.is_active() { self.flower.extract(|message| ...) }
Poll ==
    /\ uipc = "poll"
    /\ IF is_active
       THEN /\ uipc' = "finalize"
            /\ IF chan = NoMsg
               THEN UNCHANGED <<chan, net_image, error_msg, recv>>
               ELSE /\ chan' = NoMsg
                    /\ IF chan.kind = "ImageProgress"
                       THEN /\ net_image' = [net_image EXCEPT !.tmp_file_size = @ + chan.n]
                            /\ recv' = [recv EXCEPT ![chan.task] = Append(@, chan.n)]
                            /\ UNCHANGED error_msg
                       ELSE /\ error_msg' = chan.kind
                            /\ UNCHANGED <<net_image, recv>>
       ELSE /\ uipc' = "buttons"
            /\ UNCHANGED <<chan, net_image, error_msg, recv>>
    /\ UNCHANGED <<init, next_image, btn_label_prev, btn_label_next,
                   activated, canceled, result, workerVars,
                   sent, nset, nfin, early, hit, late, fin>>

\* the length of image_bytes of task t: the chunks it pushed.  The image
\* decoded from them is represented by this number.
image_bytes(t) == SumSeq(sent[t])

\* update: .finalize(|result| ...) and, if fetch_image_finalized,
\* reset_fetch_image
Finalize ==
    /\ uipc = "finalize"
    /\ uipc' = "buttons"
    /\ IF result_is_ready
       THEN LET ok == result.val = "ok"
                fetch_image_finalized == ok \/ error_msg = "ImageError"
                ni == IF ok THEN set_image(net_image, image_bytes(result.task))
                      ELSE IF error_msg = "ImageError" THEN set_error(net_image, result.val)
                      ELSE net_image
            IN  /\ result' = NoResult
                /\ activated' = FALSE
                /\ error_msg' = "Default"
                /\ nfin' = [nfin EXCEPT ![result.task] = @ + 1]
                /\ fin' = [kind |-> IF ok THEN "ok" ELSE "err", task |-> result.task,
                           tmp |-> net_image.tmp_file_size,
                           bytes |-> SumSeq(sent[result.task]), seed |-> net_image.seed,
                           late |-> late, hit |-> hit[result.task],
                           reset |-> fetch_image_finalized]
                /\ IF fetch_image_finalized
                   THEN reset_fetch_image(ni)
                   ELSE /\ net_image' = ni
                        /\ UNCHANGED <<btn_label_prev, btn_label_next>>
       ELSE UNCHANGED <<result, activated, error_msg, nfin, fin, net_image,
                        btn_label_prev, btn_label_next>>
    \* the history of a task ends when its result is consumed
    /\ IF result_is_ready
       THEN /\ sent' = [sent EXCEPT ![result.task] = <<>>]
            /\ recv' = [recv EXCEPT ![result.task] = <<>>]
            /\ early' = [early EXCEPT ![result.task] = FALSE]
            /\ hit' = [hit EXCEPT ![result.task] = FALSE]
       ELSE UNCHANGED <<sent, recv, early, hit>>
    /\ UNCHANGED <<init, next_image, canceled, chan, workerVars, nset, late>>

\* update: the click on the prev button
ClickPrev ==
    IF is_active
    THEN IF next_image
         THEN /\ btn_label_prev' = LabelWait
              /\ UNCHANGED <<net_image, next_image, canceled, nspawn, pc, early, hit, late>>
         ELSE /\ cancel
              /\ UNCHANGED <<net_image, next_image, btn_label_prev, nspawn, pc>>
    ELSE IF net_image.seed > 1
         THEN /\ spawn_fetch_image([net_image EXCEPT !.seed = @ - 1])
              /\ next_image' = FALSE
              /\ btn_label_prev' = LabelCancel
              /\ UNCHANGED <<early, hit>>
         ELSE /\ btn_label_prev' = LabelNoPrev
              /\ UNCHANGED <<net_image, next_image, canceled, nspawn, pc, early, hit, late>>

\* update: the click on the next button
ClickNext ==
    IF is_active
    THEN IF ~next_image
         THEN /\ btn_label_next' = LabelWait
              /\ UNCHANGED <<net_image, next_image, canceled, nspawn, pc, early, hit, late>>
         ELSE /\ cancel
              /\ UNCHANGED <<net_image, next_image, btn_label_next, nspawn, pc>>
    ELSE /\ spawn_fetch_image([net_image EXCEPT !.seed = @ + 1])
         /\ next_image' = TRUE
         /\ btn_label_next' = LabelCancel
         /\ UNCHANGED <<early, hit>>

\* update: ui.horizontal(...), the two buttons; the rest of the frame only
\* draws.  The pointer clicks at most one button in a frame.
Buttons ==
    /\ uipc = "buttons"
    /\ uipc' = "poll"
    /\ fin' = NoFin
    /\ \/ UNCHANGED <<net_image, next_image, btn_label_prev, btn_label_next,
                      canceled, nspawn, pc, early, hit, late>>
       \/ ClickPrev /\ UNCHANGED btn_label_next
       \/ ClickNext /\ UNCHANGED btn_label_prev
    /\ UNCHANGED <<init, error_msg, activated, chan, result, fetched,
                   sent, recv, nset, nfin>>

Next ==
    \/ Start
    \/ Poll
    \/ Finalize
    \/ Buttons
    \/ \E t \in Tasks : Worker(t)

Spec == Init /\ [][Next]_vars

\* one step of the frame loop: egui keeps calling update while the spinner
\* of the progress display asks for repaints
Frame == Start \/ Poll \/ Finalize \/ Buttons

FairNext == Next /\ nspawn' <= MaxFairSpawns

\* the frames keep coming and the tokio runtime keeps polling every spawned
\* block that can go on; nothing obliges the user to click
FairSpec ==
    /\ Init
    /\ [][FairNext]_vars
    /\ WF_vars(Frame)
    /\ \A t \in Tasks : WF_vars(Worker(t))

\* ------------------------------------------------------------------ claims
\* the tasks started by spawn_fetch_image whose result finalize has not consumed
Outstanding == {t \in Tasks : pc[t] # "unborn" /\ nfin[t] = 0}

\* C1: at most one fetch task is outstanding at any time, also between
\* spawn_fetch_image and the worker's activate().
C1_AtMostOneOutstanding == Cardinality(Outstanding) <= 1

\* the worker is inside send_async and its message has not been taken
InSend(t) == pc[t] = "send" \/ (pc[t] = "await" /\ ~Delivered(t))

C3_OneResultPerSpawn ==
    \A t \in Tasks :
        /\ nset[t] = IF pc[t] = "done" THEN 1 ELSE 0
        /\ nfin[t] <= nset[t]
        /\ nset[t] = 1 => chan.task # t

\* C3 witness: an Err result and its task's single finalize
C3_Witness == fin.kind = "err" /\ nfin[fin.task] = 1 /\ nset[fin.task] = 1

\* C4: a task whose cancel was requested while it was active and before it
\* read its first chunk never resolves with Ok.
C4_EarlyCancelNeverOk == result.val = "ok" => ~early[result.task]

\* C5: a cancel requested after the result was set has no effect on the
\* state after finalization: a fetch that resolved Ok is not treated as
\* canceled, its labels and seed are those of a fetch that was not canceled.
C5_LateCancelNoEffect ==
    (fin.kind = "ok" /\ fin.late) =>
        /\ btn_label_next = LabelFetchNext
        /\ btn_label_prev = LabelFetchPrev
        /\ net_image.seed = fin.seed

\* C6: after finalize consumed an Err the coordinator is idle: the flower is
\* not active and the progress display is off.
C6_ErrLeavesIdle ==
    [][(fin.kind = "none" /\ fin'.kind = "err") =>
            (~activated' /\ ~net_image'.show_image_progress)]_vars

\* C7: when finalize sees Err, error_msg is ImageError: the error is rendered
\* and reset_fetch_image runs in that frame.
C7_ErrRenderedAndReset ==
    fin.kind = "err" => (fin.reset /\ net_image.error \in FetchErrors)

C9_ActiveBeforeProgress ==
    /\ [](\A t \in Tasks : (sent[t] # <<>> \/ chan.task = t) => pc[t] \notin {"unborn", "spawned"})
    /\ [][chan' # chan /\ chan' = NoMsg => activated]_vars

\* C9 witness: progress of a task has been delivered
C9_Witness == \E t \in Tasks : recv[t] # <<>> /\ activated

\* C10: when finalize consumes Ok, tmp_file_size equals the number of bytes
\* of all chunks of that task.
C10_ProgressSumsToBytes == fin.kind = "ok" => fin.tmp = fin.bytes

\* C11: a task that cancel() reached in its chunk loop, after it had read k
\* chunks, resolves with the cancelation error (or the error of a stream
\* that failed by itself), reads no further chunk into a progress event, and
\* the total accumulated when its result is consumed is the sum of those k
\* chunk lengths.
C11_CancelStopsProgress ==
    /\ [](\A t \in Tasks : (hit[t] /\ result.task = t) => result.val \in {CancelationMsg, IOErrorMsg})
    /\ [](fin.hit => fin.tmp = fin.bytes)
    /\ [][\A t \in Tasks : hit[t] => Len(sent'[t]) <= Len(sent[t])]_vars

\* C12: a fetch that fails with the unexpected-content-type error has read no
\* body chunk: the error arises at the Content-Type test, before the chunk
\* loop and the decoder, and the task has sent no ImageProgress.
C12_ContentTypeBeforeBody ==
    /\ [](\A t \in Tasks :
            (fetched[t] = ContentTypeMsg \/ (result.task = t /\ result.val = ContentTypeMsg))
                => (sent[t] = <<>> /\ recv[t] = <<>>))
    /\ [][\A t \in Tasks :
            (fetched'[t] = ContentTypeMsg /\ fetched[t] # ContentTypeMsg) => pc[t] = "connect"]_vars

\* C12 witness: a task resolved with the content-type error
C12_Witness == result.val = ContentTypeMsg /\ pc[result.task] = "done"

\* C13: flower.cancel() is called only in a frame where is_active() is true,
\* and a task starts with should_cancel() false whatever cancels were
\* requested before its spawn; the flag is raised by nothing but cancel().
C13_NoCancelBeforeSpawn ==
    /\ [][(canceled' /\ ~canceled) => (activated /\ uipc = "buttons")]_vars
    /\ [][\A t \in Tasks : (pc[t] = "unborn" /\ pc'[t] # "unborn") => ~canceled']_vars

\* C13 witness: cancel() reached an earlier task in its chunk loop, and the
\* task spawned after that is running with the flag lowered
C13_Witness ==
    \E t \in Tasks :
        /\ t < nspawn
        /\ hit[t]
        /\ ~canceled
        /\ pc[nspawn] \in {"connect", "chunk", "send", "await"}

\* C14: the frame that consumes a result (Ok or Err) leaves tmp_file_size 0
\* and show_image_progress false; tmp_file_size is 0 at every call of
\* spawn_fetch_image; and show_image_progress is true exactly while a spawned
\* task's result is not yet consumed.
C14_TransientsReset ==
    /\ [](fin.kind # "none" =>
            (net_image.tmp_file_size = 0 /\ ~net_image.show_image_progress))
    /\ [](net_image.show_image_progress <=> Outstanding # {})
    /\ [][nspawn' # nspawn => net_image.tmp_file_size = 0]_vars

\* C15: under fair scheduling of frames and worker steps every spawned task
\* has its result consumed by finalize, which leaves the flower inactive;
\* no worker stays in send or send_async for ever.
C15_EveryTaskConsumed ==
    \A t \in Tasks : (pc[t] # "unborn") ~> (nfin[t] = 1 /\ ~activated)

\* C16: whatever the workers are doing, the step of update the UI thread is
\* at can be taken: the is_active test and extract, finalize, and the button
\* step; and in a frame where the flower is active the click that calls
\* flower.cancel() can be taken as well.
C16_ConsumerNeverWaits ==
    /\ uipc = "start" => ENABLED Start
    /\ uipc = "poll" => ENABLED Poll
    /\ uipc = "finalize" => ENABLED Finalize
    /\ uipc = "buttons" => ENABLED Buttons
    /\ (uipc = "buttons" /\ is_active) => ENABLED (Buttons /\ canceled')

\* C16 witness: extract has returned with nothing pending, a cancel is
\* requested and the worker has not stopped
C16_Witness ==
    /\ uipc = "finalize"
    /\ chan = NoMsg
    /\ result = NoResult
    /\ canceled
    /\ \E t \in Tasks : pc[t] = "connect"

\* C17: whenever an image is displayed, file_size is the size in KB (bytes
\* divided by 1000) of the download that produced that image.
C17_FileSizeOfShownImage ==
    net_image.image # 0 => net_image.file_size = net_image.image \div 1000

\* C18: when the frame finalizes a canceled fetch and reset_fetch_image
\* offers the retry, the click on the retry button will request the seed of
\* the canceled fetch: the next button requests seed + 1, the prev button
\* seed - 1 provided seed > 1.
C18_RetrySameSeed ==
    (fin.kind = "err" /\ fin.reset /\ net_image.error = CancelationMsg /\ is_canceled) =>
        IF next_image
        THEN btn_label_next = LabelRetryNext /\ net_image.seed + 1 = fin.seed
        ELSE btn_label_prev = LabelRetryPrev /\ net_image.seed > 1 /\ net_image.seed - 1 = fin.seed

\* C19: after the first frame net_image.seed is at least 1; every fetch is
\* spawned for a seed of at least 1; and the prev button spawns only when
\* the seed is above 1.
C19_SeedAtLeastOne ==
    /\ [](uipc # "start" => net_image.seed >= 1)
    /\ [][nspawn' # nspawn => net_image'.seed >= 1]_vars
    /\ [][(nspawn' # nspawn /\ ~next_image') => net_image.seed > 1]_vars

\* C19 witness: the initial fetch was canceled, the seed is still 1, and the
\* click on the prev button spawned nothing
C19_Witness ==
    /\ net_image.seed = 1
    /\ btn_label_next = LabelRetryNext
    /\ btn_label_prev = LabelNoPrev
    /\ nspawn = 1

\* the coordinator is idle: every spawned task's result was consumed
Idle == uipc # "start" /\ Outstanding = {} /\ ~is_active /\ ~result_is_ready

\* C20: when the coordinator is idle neither button reads "Wait we are
\* still fetching..." or "Cancel?"; when the flower is active the button
\* whose click calls flower.cancel() reads "Cancel?".
C20_LabelsMatchState ==
    /\ Idle => {btn_label_prev, btn_label_next} \cap {LabelWait, LabelCancel} = {}
    /\ is_active => (IF next_image THEN btn_label_next ELSE btn_label_prev) = LabelCancel

====
